---- MODULE Spec2Model ----
(***************************************************************************)
(* NewsAnalyticsAI: the text utilities (src/src/utils/text.ts) and the     *)
(* deduplication utilities (src/src/utils/dedupe.ts).                       *)
(*                                                                         *)
(* A JavaScript string is a sequence of one-character strings.  A JS       *)
(* number is Num(n) or NaN.  An optional field is Undefined or Some(v).    *)
(* A JS Map is the sequence of its entries in insertion order.             *)
(***************************************************************************)
EXTENDS Integers, Sequences, FiniteSets, TLC

\* Longest batch of articles handed to one call.
MaxBatch == 3
\* Largest publication instant (the unit of time is 30 minutes).
MaxTime == 5
\* Largest timeWindowMs (same unit).
MaxWindow == 3
\* Most pieces a raw ticker string is put together from.
MaxPieces == 3

\* Longest generated title
MaxTitleLen == 3
\* Longest text given to truncateByWords
MaxTextLen == 4
\* Largest maxWords given to truncateByWords
MaxWords == 2
\* Longest text given to detectLanguage
MaxDetectLen == 3
\* Most pieces after the host of a generated URL
MaxUrlPieces == 2
\* getAnalysis calls made in a run, and calls of analysisCache.clear()
MaxCalls == 3
MaxClears == 1
\* setLocale calls in a run, the one of the initialization included
MaxLocaleCalls == 4

----------------------------------------------------------------------------
(* JavaScript values *)

Undefined == [undef |-> TRUE]
Some(v) == [undef |-> FALSE, v |-> v]

NaN == [nan |-> TRUE]
Num(n) == [nan |-> FALSE, n |-> n]

\* ToBoolean of a number or undefined: undefined, NaN and 0 are falsy.
Truthy(x) == x # Undefined /\ x # NaN /\ x # Num(0)

\* ToBoolean of a string or undefined: undefined and "" are falsy.
TruthyStr(x) == x # Undefined /\ x # Some(<<>>)

\* a - b, NaN when either operand is NaN.
NumSub(a, b) == IF a.nan \/ b.nan THEN NaN ELSE Num(a.n - b.n)

\* a > b, false when either operand is NaN.
NumGt(a, b) == IF a.nan \/ b.nan THEN FALSE ELSE a.n > b.n

----------------------------------------------------------------------------
(* Characters *)

UpperChars == <<"A","B","C","D","E","F","G","H","I","J","K","L","M",
                "N","O","P","Q","R","S","T","U","V","W","X","Y","Z">>
LowerChars == <<"a","b","c","d","e","f","g","h","i","j","k","l","m",
                "n","o","p","q","r","s","t","u","v","w","x","y","z">>
\* Cyrillic letters are written by name: "CYR_B" is U+0411, "cyr_b" U+0431.
CyrUpperChars == <<"CYR_B", "CYR_I", "CYR_A", "CYR_L", "CYR_N", "CYR_S", "CYR_SOFT", "CYR_YA">>
CyrLowerChars == <<"cyr_b", "cyr_i", "cyr_a", "cyr_l", "cyr_n", "cyr_s", "cyr_soft", "cyr_ya">>

DigitChars == {"0","1","2","3","4","5","6","7","8","9"}
UpperSet == {UpperChars[i] : i \in 1..26}
LowerSet == {LowerChars[i] : i \in 1..26}

\* \s of a regular expression
IsSpace(c) == c \in {" ", "\t", "\n"}
\* \w of a regular expression without the u flag: [A-Za-z0-9_]
IsWordChar(c) == c \in UpperSet \/ c \in LowerSet \/ c \in DigitChars \/ c = "_"

IndexIn(seq, c) == CHOOSE i \in 1..Len(seq) : seq[i] = c

toLowerCaseChar(c) ==
  IF c \in UpperSet THEN LowerChars[IndexIn(UpperChars, c)]
  ELSE IF \E i \in 1..Len(CyrUpperChars) : CyrUpperChars[i] = c
       THEN CyrLowerChars[IndexIn(CyrUpperChars, c)]
       ELSE c

toUpperCaseChar(c) ==
  IF c \in LowerSet THEN UpperChars[IndexIn(LowerChars, c)]
  ELSE IF \E i \in 1..Len(CyrLowerChars) : CyrLowerChars[i] = c
       THEN CyrUpperChars[IndexIn(CyrLowerChars, c)]
       ELSE c

toLowerCase(s) == [i \in 1..Len(s) |-> toLowerCaseChar(s[i])]
toUpperCase(s) == [i \in 1..Len(s) |-> toUpperCaseChar(s[i])]

----------------------------------------------------------------------------
(* String helpers *)

\* s.replace(/\s+/g, ' '): every run of whitespace becomes one space.
RECURSIVE CollapseSpaces(_)
CollapseSpaces(s) ==
  IF s = <<>> THEN <<>>
  ELSE IF IsSpace(Head(s))
       THEN IF Len(s) > 1 /\ IsSpace(s[2])
            THEN CollapseSpaces(Tail(s))
            ELSE <<" ">> \o CollapseSpaces(Tail(s))
       ELSE <<Head(s)>> \o CollapseSpaces(Tail(s))

RECURSIVE TrimStart(_)
TrimStart(s) ==
  IF s # <<>> /\ IsSpace(Head(s)) THEN TrimStart(Tail(s)) ELSE s

RECURSIVE TrimEnd(_)
TrimEnd(s) ==
  IF s # <<>> /\ IsSpace(s[Len(s)]) THEN TrimEnd(SubSeq(s, 1, Len(s) - 1)) ELSE s

trim(s) == TrimEnd(TrimStart(s))

----------------------------------------------------------------------------
(* text.ts *)

\* Mutant of IsPriceChar: the class without \d.
IsPriceCharNoDigits(c) == c = "$" \/ c = ","

\* /[$,\d,]+/
IsPriceChar(c) == c = "$" \/ c = "," \/ c \in DigitChars

normalizeTitle(title) ==
  LET lower     == toLowerCase(title)
      \* replace(/[...]+/g, ''): every character of the class is dropped
      noNumbers == SelectSeq(lower, LAMBDA c : ~IsPriceChar(c))
      noPunct   == SelectSeq(noNumbers, LAMBDA c : IsWordChar(c) \/ IsSpace(c))
      spaces    == CollapseSpaces(noPunct)
  IN  trim(spaces)

\* Position of the first ":" of url, 0 when there is none.
ColonAt(url) ==
  IF \E i \in 1..Len(url) : url[i] = ":"
  THEN CHOOSE i \in 1..Len(url) : url[i] = ":" /\ \A j \in 1..(i-1) : url[j] # ":"
  ELSE 0

\* The characters that end the host of a URL.
HostEnds == {"/", "?", "#"}

\* new URL(url), for strings of the shape scheme://host, with a path, a query
\* or a fragment after the host or without, and for strings with no scheme at
\* all: the latter are relative references, which throw without a base.  The
\* hostname is what lies between "//" and the next "/", "?" or "#",
\* lowercased.
ParseURL(url) ==
  LET c == ColonAt(url) IN
  IF /\ c > 1
     /\ \A j \in 1..(c-1) : url[j] \in UpperSet \/ url[j] \in LowerSet
     /\ Len(url) >= c + 3
     /\ url[c+1] = "/" /\ url[c+2] = "/" /\ url[c+3] \notin HostEnds
  THEN LET rest == SubSeq(url, c + 3, Len(url))
           stop == IF \E i \in 1..Len(rest) : rest[i] \in HostEnds
                   THEN (CHOOSE i \in 1..Len(rest) :
                            rest[i] \in HostEnds /\ \A j \in 1..(i-1) : rest[j] \notin HostEnds) - 1
                   ELSE Len(rest)
       IN  [ok |-> TRUE, hostname |-> toLowerCase(SubSeq(rest, 1, stop))]
  ELSE [ok |-> FALSE]

\* Mutant of extractDomain: the catch block returns the empty string.
extractDomainEmptyOnFailure(url) ==
  LET parsed == ParseURL(url) IN
  IF parsed.ok THEN parsed.hostname ELSE <<>>

extractDomain(url) ==
  LET parsed == ParseURL(url) IN
  IF parsed.ok THEN parsed.hostname ELSE url

\* raw.split(/[seps]+/): the pieces between the runs of separators, an empty
\* piece before a leading run and after a trailing one.
RECURSIVE SkipSeps(_, _)
SkipSeps(s, seps) ==
  IF s # <<>> /\ Head(s) \in seps THEN SkipSeps(Tail(s), seps) ELSE s

RECURSIVE SplitRec(_, _, _)
SplitRec(s, seps, cur) ==
  IF s = <<>> THEN <<cur>>
  ELSE IF Head(s) \in seps
       THEN <<cur>> \o SplitRec(SkipSeps(Tail(s), seps), seps, <<>>)
       ELSE SplitRec(Tail(s), seps, Append(cur, Head(s)))

split(s, seps) == SplitRec(s, seps, <<>>)

\* buf.replace(new RegExp(word, 'g'), ` ${word} `): every occurrence of word,
\* found left to right without overlap, is padded with spaces.
RECURSIVE replaceAll(_, _)
replaceAll(buf, word) ==
  IF Len(buf) < Len(word) THEN buf
  ELSE IF SubSeq(buf, 1, Len(word)) = word
       THEN <<" ">> \o word \o <<" ">>
              \o replaceAll(SubSeq(buf, Len(word) + 1, Len(buf)), word)
       ELSE <<Head(buf)>> \o replaceAll(Tail(buf), word)

\* arr.join(sep)
RECURSIVE join(_, _)
join(arr, sep) ==
  IF arr = <<>> THEN <<>>
  ELSE IF Len(arr) = 1 THEN arr[1]
       ELSE arr[1] \o sep \o join(Tail(arr), sep)

\* Mutant of uniqueInOrder: the last occurrence of each element survives.
RECURSIVE uniqueKeepLast(_)
uniqueKeepLast(arr) ==
  IF arr = <<>> THEN <<>>
  ELSE LET rest == uniqueKeepLast(Tail(arr)) IN
       IF \E i \in 1..Len(rest) : rest[i] = Head(arr) THEN rest
       ELSE <<Head(arr)>> \o rest

\* Array.from(new Set(arr)): the first occurrence of each element, in order.
RECURSIVE uniqueInOrder(_)
uniqueInOrder(arr) ==
  IF arr = <<>> THEN <<>>
  ELSE LET front == uniqueInOrder(SubSeq(arr, 1, Len(arr) - 1))
           last  == arr[Len(arr)]
       IN  IF \E i \in 1..Len(front) : front[i] = last THEN front
           ELSE Append(front, last)

\* The whitelist of normalizeTickers, in its declared order (lines 29-35).
whitelist ==
  << <<"B","T","C">>,
     <<"E","T","H">>,
     <<"M","A","R","A">>,
     <<"R","I","O","T">>,
     <<"B","C","H">>,
     <<"B","N","B">>,
     <<"X","R","P">>,
     <<"S","O","L">>,
     <<"A","D","A">>,
     <<"D","O","T">>,
     <<"A","V","A","X">>,
     <<"M","A","T","I","C">>,
     <<"L","T","C">>,
     <<"U","N","I">>,
     <<"L","I","N","K">>,
     <<"A","T","O","M">>,
     <<"F","I","L">>,
     <<"T","R","X">>,
     <<"X","L","M">>,
     <<"A","L","G","O">>,
     <<"V","E","T">>,
     <<"I","C","P">>,
     <<"C","O","I","N">>,
     <<"M","S","T","R">>,
     <<"H","O","O","D">>,
     <<"S","O","F","I">>,
     <<"S","Q">>,
     <<"P","Y","P","L">>,
     <<"V">>,
     <<"M","A">>,
     <<"A","A","P","L">>,
     <<"M","S","F","T">>,
     <<"G","O","O","G","L">>,
     <<"A","M","Z","N">>,
     <<"T","S","L","A">>,
     <<"M","E","T","A">>,
     <<"N","V","D","A">>,
     <<"A","M","D">>,
     <<"I","N","T","C">>,
     <<"S","P","Y">>,
     <<"Q","Q","Q">>,
     <<"I","W","M">>,
     <<"T","L","T">>,
     <<"G","L","D">>,
     <<"S","L","V">>,
     <<"U","S","O">>,
     <<"U","N","G">>,
     <<"D","B","A">>,
     <<"D","B","C">> >>

whitelistHas(t) == \E i \in 1..Len(whitelist) : whitelist[i] = t

\* /[,\s/|]+/
TickerSeps == {",", " ", "\t", "\n", "/", "|"}
\* /\s+/
SpaceSeps == {" ", "\t", "\n"}

NonEmpty(arr) == SelectSeq(arr, LAMBDA x : x # <<>>)

\* Lines 38-40: split, trim and uppercase, drop the empty strings.
tickerTokens(raw) ==
  LET parts == split(raw, TickerSeps) IN
  NonEmpty([i \in 1..Len(parts) |-> toUpperCase(trim(parts[i]))])

\* Lines 47-52: pad every whitelist word found in the token, in whitelist
\* order, then split the buffer on whitespace.
RECURSIVE replaceWords(_, _)
replaceWords(buf, i) ==
  IF i > Len(whitelist) THEN buf
  ELSE LET next == replaceAll(buf, whitelist[i]) IN
       \* (the test makes TLC compute next before it goes on)
       IF Len(next) >= 0 THEN replaceWords(next, i + 1) ELSE next

splitToken(token) == NonEmpty(split(replaceWords(token, 1), SpaceSeps))

\* Mutant of isConcatenated: tokens of 4 characters are split too.
isConcatenatedFrom4(token) == Len(token) > 3 /\ ~whitelistHas(token)

\* Line 46: the token is taken for several symbols written together.
isConcatenated(token) == Len(token) > 4 /\ ~whitelistHas(token)

\* Lines 45-56.
RECURSIVE mergeTokens(_)
mergeTokens(arr) ==
  IF arr = <<>> THEN <<>>
  ELSE LET token == Head(arr) IN
       (IF isConcatenated(token) THEN splitToken(token) ELSE <<token>>)
         \o mergeTokens(Tail(arr))

\* Mutant of uniqueTickers: the whitelist filter is left out.
uniqueTickersNoFilter(merged) == uniqueInOrder(merged)

\* Line 59.
uniqueTickers(merged) == uniqueInOrder(SelectSeq(merged, whitelistHas))

normalizeTickers(raw) ==
  IF raw = <<>> THEN <<>>
  ELSE join(uniqueTickers(mergeTokens(tickerTokens(raw))), <<",", " ">>)

----------------------------------------------------------------------------
(* dedupe.ts *)

\* Map.has, Map.get, Map.set: a new key goes last, an old key keeps its place.
MapHas(m, k) == \E i \in 1..Len(m) : m[i].k = k
MapGet(m, k) ==
  IF MapHas(m, k) THEN m[CHOOSE i \in 1..Len(m) : m[i].k = k].v ELSE Undefined
MapSet(m, k, v) ==
  IF MapHas(m, k)
  THEN [i \in 1..Len(m) |-> IF m[i].k = k THEN [k |-> k, v |-> v] ELSE m[i]]
  ELSE Append(m, [k |-> k, v |-> v])
\* Mutant of MapValues: the values come back last inserted first.
MapValuesReversed(m) == [i \in 1..Len(m) |-> m[Len(m) + 1 - i].v]

\* Array.from(m.values())
MapValues(m) == [i \in 1..Len(m) |-> m[i].v]

generateDedupeKey(article) ==
  LET normalizedTitle == normalizeTitle(article.title)
      domain == IF TruthyStr(article.sourceDomain)
                THEN article.sourceDomain.v
                ELSE extractDomain(article.sourceUrl)
  IN  normalizedTitle \o <<"|">> \o domain

\* new Date(value).getTime(): the instant of a well-formed timestamp, 0 for
\* the number 0, NaN (Invalid Date) for a string that is no timestamp.
DateGetTime(value) ==
  CASE value.kind = "zero"    -> Num(0)
    [] value.kind = "iso"     -> Num(value.t)
    [] value.kind = "invalid" -> NaN

\* article.ts_published || 0
TsOrZero(article) ==
  IF article.ts_published = Undefined THEN [kind |-> "zero"]
  ELSE article.ts_published.v


\* Mutant of dedupeStep: a later article replaces the one kept for its key.
dedupeStepKeepLast(seenMap, article) ==
  MapSet(seenMap, generateDedupeKey(article), article)

\* One iteration of the loop of dedupeArticles (lines 23-30).
dedupeStep(seenMap, article) ==
  LET key == generateDedupeKey(article) IN
  IF ~MapHas(seenMap, key) THEN MapSet(seenMap, key, article) ELSE seenMap

\* Mutant of ftdStep: the window is anchored to the last article seen, the
\* stored time being updated for a rejected article as well.
ftdStepLastSeen(st, article, windowMs) ==
  LET key         == generateDedupeKey(article)
      articleTime == DateGetTime(TsOrZero(article))
      lastSeen    == MapGet(st.seen, key)
  IN  [filtered |-> IF ~Truthy(lastSeen)
                       \/ NumGt(NumSub(articleTime, lastSeen), Num(windowMs))
                    THEN Append(st.filtered, article) ELSE st.filtered,
       seen     |-> MapSet(st.seen, key, articleTime)]

\* Mutant of ftdStep: only the window is tested, an article whose key was not
\* seen before is not kept for that alone.
ftdStepWindowOnly(st, article, windowMs) ==
  LET key         == generateDedupeKey(article)
      articleTime == DateGetTime(TsOrZero(article))
      lastSeen    == MapGet(st.seen, key)
  IN  IF lastSeen # Undefined /\ NumGt(NumSub(articleTime, lastSeen), Num(windowMs))
      THEN [filtered |-> Append(st.filtered, article),
            seen     |-> MapSet(st.seen, key, articleTime)]
      ELSE st

\* One iteration of the loop of filterTemporalDuplicates (lines 98-108);
\* st is [filtered, seen].
ftdStep(st, article, windowMs) ==
  LET key         == generateDedupeKey(article)
      articleTime == DateGetTime(TsOrZero(article))
      lastSeen    == MapGet(st.seen, key)
  IN  IF ~Truthy(lastSeen) \/ NumGt(NumSub(articleTime, lastSeen), Num(windowMs))
      THEN [filtered |-> Append(st.filtered, article),
            seen     |-> MapSet(st.seen, key, articleTime)]
      ELSE st

\* The whole functions, as folds of their loop bodies.
RECURSIVE dedupeFold(_, _)
dedupeFold(seenMap, as) ==
  IF as = <<>> THEN seenMap ELSE dedupeFold(dedupeStep(seenMap, Head(as)), Tail(as))

dedupeArticles(as) == MapValues(dedupeFold(<<>>, as))

RECURSIVE ftdFold(_, _, _)
ftdFold(st, as, windowMs) ==
  IF as = <<>> THEN st ELSE ftdFold(ftdStep(st, Head(as), windowMs), Tail(as), windowMs)

filterTemporalDuplicates(as, windowMs) ==
  ftdFold([filtered |-> <<>>, seen |-> <<>>], as, windowMs).filtered

----------------------------------------------------------------------------
(* The articles the model draws *)

TitleHits1 == <<"H","i","t","s"," ","$","1">>
TitleHits2 == <<"h","i","t","s"," "," ","2",",","0","0","0","!">>
TitleUp    == <<"U","p">>

UrlA1    == <<"h","t","t","p","s",":","/","/","a",".","i","o","/","1">>
UrlA2    == <<"h","t","t","p","s",":","/","/","A",".","i","o","/","2">>
NotAUrl  == <<"n","o","t","-","a","-","u","r","l">>
DomainA  == <<"a",".","i","o">>

\* Title, URL and precomputed domain of an article: the first two have the
\* same dedupe key, the third another one.
SourceHits1 == [title |-> TitleHits1, sourceUrl |-> UrlA1, sourceDomain |-> Some(DomainA)]
SourceHits2 == [title |-> TitleHits2, sourceUrl |-> UrlA2, sourceDomain |-> Undefined]
SourceUp    == [title |-> TitleUp, sourceUrl |-> NotAUrl, sourceDomain |-> Undefined]

Sources == {SourceHits1, SourceHits2, SourceUp}
\* The batches of filterTemporalDuplicates vary the timestamps instead.
TemporalSources == {SourceHits2, SourceUp}

\* ts_published: absent, a string that is no date, or the timestamp of an instant.
Timestamps ==
  {Undefined, Some([kind |-> "invalid"])}
    \cup {Some([kind |-> "iso", t |-> t]) : t \in 0..MaxTime}

MkArticle(id, src, ts) ==
  [id |-> id, title |-> src.title, sourceUrl |-> src.sourceUrl,
   sourceDomain |-> src.sourceDomain, ts_published |-> ts]

----------------------------------------------------------------------------
(* State *)

VARIABLES
  call,          \* the function being executed
  articles,      \* the articles of the batch read so far (all of it at "done")
  timeWindowMs,  \* second argument of filterTemporalDuplicates
  seen,          \* the local Map
  filtered,      \* the local array of filterTemporalDuplicates
  result,        \* the returned value
  pc,            \* "loop" | "call" | "done"
  raw,           \* the arguments of the text function called
  tickers,       \* the string normalizeTickers returned
  analysisCache, \* the Map of the AnalysisCache instance of analysis.ts
  getCalls,      \* the getAnalysis calls made so far, in the order they began
  apiRequests,   \* the analysis API requests sent so far, in order
  clears,        \* how many times analysisCache.clear() was called
  locale,        \* the state of LocaleProvider (useState)
  queuedLocale,  \* the value given to setLocaleState, until the next render
  localStorage,  \* the 'locale' entry of window.localStorage
  urlLang,       \* the 'lang' parameter of window.location
  browserLang,   \* navigator.language
  localeLog      \* the setLocale and toggleLocale calls rendered so far

analysisVars == <<analysisCache, getCalls, apiRequests, clears>>
localeVars == <<locale, queuedLocale, localStorage, urlLang, browserLang, localeLog>>
serviceVars == <<analysisVars, localeVars>>

vars == <<call, articles, timeWindowMs, seen, filtered, result, pc, raw, tickers,
          analysisVars, localeVars>>

utilVars == <<call, articles, timeWindowMs, seen, filtered, result, pc, raw, tickers>>

\* No function of the utilities is being called.
UtilsIdle ==
  /\ call = "none" /\ articles = <<>> /\ timeWindowMs = 0 /\ seen = <<>>
  /\ filtered = <<>> /\ result = <<>> /\ pc = "idle" /\ raw = <<>> /\ tickers = <<>>

\* No analysis was asked for and no LocaleProvider is mounted.
AnalysisIdle ==
  analysisCache = <<>> /\ getCalls = <<>> /\ apiRequests = <<>> /\ clears = 0
LocaleIdle ==
  /\ locale = <<"e", "n">> /\ queuedLocale = Undefined /\ localStorage = Undefined
  /\ urlLang = Undefined /\ browserLang = <<"e", "n">> /\ localeLog = <<>>
ServiceIdle == AnalysisIdle /\ LocaleIdle

Init ==
  /\ ServiceIdle
  /\ raw = <<>> /\ tickers = <<>>
  /\ \/ call = "dedupeArticles" /\ timeWindowMs = 0
     \/ call = "filterTemporalDuplicates" /\ timeWindowMs \in 0..MaxWindow
  /\ articles = <<>>
  /\ seen = <<>>
  /\ filtered = <<>>
  /\ result = <<>>
  /\ pc = "loop"

\* dedupeArticles reads the next article of the batch.
DedupeLoop ==
  /\ pc = "loop" /\ call = "dedupeArticles"
  /\ Len(articles) < MaxBatch
  /\ \E src \in Sources, ts \in {Undefined, Some([kind |-> "iso", t |-> MaxTime])} :
       LET article == MkArticle(Len(articles) + 1, src, ts) IN
       /\ articles' = Append(articles, article)
       /\ seen' = dedupeStep(seen, article)
  /\ UNCHANGED <<call, timeWindowMs, filtered, result, pc, raw, tickers>>
  /\ UNCHANGED serviceVars

\* The batch is exhausted: return Array.from(seen.values()).
DedupeReturn ==
  /\ pc = "loop" /\ call = "dedupeArticles"
  /\ result' = MapValues(seen)
  /\ pc' = "done"
  /\ UNCHANGED <<call, articles, timeWindowMs, seen, filtered, raw, tickers>>
  /\ UNCHANGED serviceVars

\* filterTemporalDuplicates reads the next article of the batch.
TemporalLoop ==
  /\ pc = "loop" /\ call = "filterTemporalDuplicates"
  /\ Len(articles) < MaxBatch
  /\ \E src \in TemporalSources, ts \in Timestamps :
       LET article == MkArticle(Len(articles) + 1, src, ts)
           st      == ftdStep([filtered |-> filtered, seen |-> seen],
                              article, timeWindowMs)
       IN  /\ articles' = Append(articles, article)
           /\ filtered' = st.filtered
           /\ seen' = st.seen
  /\ UNCHANGED <<call, timeWindowMs, result, pc, raw, tickers>>
  /\ UNCHANGED serviceVars

\* The batch is exhausted: return filtered.
TemporalReturn ==
  /\ pc = "loop" /\ call = "filterTemporalDuplicates"
  /\ result' = filtered
  /\ pc' = "done"
  /\ UNCHANGED <<call, articles, timeWindowMs, seen, filtered, raw, tickers>>
  /\ UNCHANGED serviceVars

Next == DedupeLoop \/ DedupeReturn \/ TemporalLoop \/ TemporalReturn

Spec == Init /\ [][Next]_vars

----------------------------------------------------------------------------
(* normalizeTickers: the raw strings the model draws *)

BTC  == <<"B","T","C">>
ETH  == <<"E","T","H">>
MARA == <<"M","A","R","A">>
RIOT == <<"R","I","O","T">>
Comma == <<",">>
Space == <<" ">>

\* Symbols, a lowercase symbol, unknown tokens of at most and of more than 4
\* characters (one with a symbol inside), and the four separators.
Pieces ==
  { BTC, ETH, MARA, RIOT,
    <<"e","t","h">>,
    <<"X">>,
    <<"X","B","T","C">>,
    <<"F","A","K","E">>,
    <<"U","N","K","N","O","W","N">>,
    Comma, Space, <<"/">>, <<"|">> }

RECURSIVE RawsOf(_)
RawsOf(n) ==
  IF n = 0 THEN {<<>>}
  ELSE LET shorter == RawsOf(n - 1) IN
       shorter \cup {r \o p : r \in shorter, p \in Pieces}

\* The inputs of the unit tests (src/__tests__/text.test.ts, lines 38-70).
TestRaws ==
  { join(<<BTC, ETH, MARA>>, <<",", " ">>),
    join(<<BTC, <<"U","N","K","N","O","W","N">>, ETH, <<"F","A","K","E">>>>, <<",", " ">>),
    BTC \o <<"/">> \o ETH \o <<"|">> \o MARA \o Space \o RIOT,
    join(<<BTC, ETH, BTC, MARA, ETH>>, <<",", " ">>) }

InitTickers ==
  /\ ServiceIdle
  /\ call = "normalizeTickers"
  /\ raw \in RawsOf(MaxPieces) \cup TestRaws
  /\ tickers = <<>>
  /\ pc = "call"
  /\ articles = <<>> /\ timeWindowMs = 0 /\ seen = <<>>
  /\ filtered = <<>> /\ result = <<>>

NormalizeTickers ==
  /\ pc = "call" /\ call = "normalizeTickers"
  /\ tickers' = normalizeTickers(raw)
  /\ pc' = "done"
  /\ UNCHANGED <<call, articles, timeWindowMs, seen, filtered, result, raw>>
  /\ UNCHANGED serviceVars

NextTickers == NormalizeTickers

SpecTickers == InitTickers /\ [][NextTickers]_vars


----------------------------------------------------------------------------
(* Properties of dedupeArticles and filterTemporalDuplicates *)

Returned(f) == pc = "done" /\ call = f

SameKey(a, b) == generateDedupeKey(a) = generateDedupeKey(b)
AllSameKey(as) == \A i, j \in 1..Len(as) : SameKey(as[i], as[j])

\* The article is the first of the batch with its dedupe key.
FirstWithKey(as, i) == \A j \in 1..(i - 1) : ~SameKey(as[j], as[i])

HasInstant(a) == a.ts_published # Undefined /\ a.ts_published.v.kind = "iso"
LacksTimestamp(a) == ~HasInstant(a)
\* The publication time of an article: its instant, or zero without a timestamp.
PubTime(a) == IF HasInstant(a) THEN a.ts_published.v.t ELSE 0
\* The article's timestamp is absent or denotes an instant.
TimeKnown(a) == a.ts_published = Undefined \/ HasInstant(a)

\* C1: at its return dedupeArticles gives exactly the articles that are the
\* first of the batch with their dedupe key, each as it was given (not merged
\* with its duplicates), in the order of the batch.
C1_FirstPerKeyInOrder ==
  Returned("dedupeArticles") =>
    /\ \A k \in 1..Len(result) :
         /\ result[k].id \in 1..Len(articles)
         /\ articles[result[k].id] = result[k]
         /\ FirstWithKey(articles, result[k].id)
    /\ \A i \in 1..Len(articles) :
         FirstWithKey(articles, i) => \E k \in 1..Len(result) : result[k] = articles[i]
    /\ \A k \in 1..(Len(result) - 1) : result[k].id < result[k + 1].id

\* Keys A, A, B: the two A are different articles, the first A and the B stay.
C1_Witness ==
  /\ Returned("dedupeArticles")
  /\ Len(articles) = 3
  /\ SameKey(articles[1], articles[2])
  /\ articles[1].title # articles[2].title
  /\ ~SameKey(articles[1], articles[3])
  /\ result = <<articles[1], articles[3]>>

\* An iteration of filterTemporalDuplicates has read one more article.
TemporalStepTaken ==
  /\ call = "filterTemporalDuplicates"
  /\ Len(articles') = Len(articles) + 1

KeptEarlier(kept, a) == \E i \in 1..Len(kept) : SameKey(kept[i], a)
LastKept(kept, a) ==
  kept[CHOOSE i \in 1..Len(kept) :
         SameKey(kept[i], a) /\ \A j \in (i + 1)..Len(kept) : ~SameKey(kept[j], a)]

\* C2: in every iteration the article read is kept exactly when no article
\* with its key was kept before or its publication time exceeds that of the
\* last kept article with its key by more than windowMs; keeping stores the
\* article's time under the key, rejecting leaves the stored times as they
\* were.  (Stated for timestamps that are absent or denote an instant.)
C2_KeptIffOutsideWindow ==
  [][ TemporalStepTaken =>
        LET a    == articles'[Len(articles')]
            keep == filtered' = Append(filtered, a)
        IN  /\ keep \/ filtered' = filtered
            /\ (TimeKnown(a) /\ (KeptEarlier(filtered, a) => TimeKnown(LastKept(filtered, a))))
                 => (keep <=> \/ ~KeptEarlier(filtered, a)
                              \/ PubTime(a) - PubTime(LastKept(filtered, a)) > timeWindowMs)
            /\ keep => MapGet(seen', generateDedupeKey(a)) = DateGetTime(TsOrZero(a))
            /\ ~keep => seen' = seen
    ]_vars

\* C3: with a window of 1 hour (2 units of 30 minutes), three articles of one
\* key published at t0, t0 + 30 min and t0 + 2 h come back as the 1st and the
\* 3rd, and two articles of one key published 2 h apart come back both.
C3_WorkedExample ==
  (Returned("filterTemporalDuplicates") /\ timeWindowMs = 2
     /\ AllSameKey(articles) /\ \A i \in 1..Len(articles) : HasInstant(articles[i]))
  =>
    /\ (Len(articles) = 3
          /\ PubTime(articles[2]) = PubTime(articles[1]) + 1
          /\ PubTime(articles[3]) = PubTime(articles[1]) + 4)
       => result = <<articles[1], articles[3]>>
    /\ (Len(articles) = 2 /\ PubTime(articles[2]) = PubTime(articles[1]) + 4)
       => result = articles

\* A chain: articles of one key, each published after its predecessor by
\* less than the window.
Chain(as, windowMs) ==
  /\ Len(as) >= 2
  /\ \A i \in 1..Len(as) : HasInstant(as[i])
  /\ \A i \in 1..(Len(as) - 1) :
       /\ PubTime(as[i]) <= PubTime(as[i + 1])
       /\ PubTime(as[i + 1]) - PubTime(as[i]) < windowMs
  /\ AllSameKey(as)

\* C4 as it stands: a chain is returned as its first article alone.  (Stated
\* for chains that start after time zero, whose stored times are all truthy.)
C4_ChainCollapsesToFirst ==
  (Returned("filterTemporalDuplicates") /\ Chain(articles, timeWindowMs)
     /\ PubTime(articles[1]) > 0)
  => result = <<articles[1]>>

\* The publication time of the last article kept before the i-th one.
LastKeptBefore(kept, i) ==
  kept[CHOOSE k \in 1..Len(kept) :
         kept[k].id < i /\ \A l \in 1..Len(kept) : kept[l].id < i => kept[l].id <= kept[k].id]

\* C4, amended: the first article of a chain is kept, and so is every article
\* published more than windowMs after the last article kept before it; a chain
\* with an article more than windowMs after the first is therefore not
\* collapsed to the first.
C4_ChainKeepsPastWindow ==
  (Returned("filterTemporalDuplicates") /\ Chain(articles, timeWindowMs))
  =>
    /\ Len(result) >= 1 /\ result[1] = articles[1]
    /\ \A i \in 2..Len(articles) :
         PubTime(articles[i]) - PubTime(LastKeptBefore(result, i)) > timeWindowMs
           => \E k \in 1..Len(result) : result[k] = articles[i]
    /\ (\E i \in 2..Len(articles) :
          PubTime(articles[i]) - PubTime(articles[1]) > timeWindowMs)
         => Len(result) >= 2

\* A chain of three whose last article is past the window of the first: the
\* second is rejected, the third is kept.
C4_Witness ==
  /\ Returned("filterTemporalDuplicates")
  /\ Chain(articles, timeWindowMs)
  /\ Len(articles) = 3
  /\ PubTime(articles[1]) > 0
  /\ PubTime(articles[3]) - PubTime(articles[1]) > timeWindowMs
  /\ result = <<articles[1], articles[3]>>

\* C5: two articles of the result with the same key are published more than
\* windowMs apart, an article without a timestamp counting as published at
\* time zero.
C5_OnePerKeyPerWindow ==
  Returned("filterTemporalDuplicates") =>
    \A i, j \in 1..Len(result) :
      (i < j /\ SameKey(result[i], result[j])
         /\ TimeKnown(result[i]) /\ TimeKnown(result[j]))
      => \/ PubTime(result[j]) - PubTime(result[i]) > timeWindowMs
         \/ PubTime(result[i]) - PubTime(result[j]) > timeWindowMs

\* The batch with every absent or unparsable timestamp replaced by the
\* timestamp of time zero.
AtTimeZero(as) ==
  [i \in 1..Len(as) |->
     IF LacksTimestamp(as[i])
     THEN [as[i] EXCEPT !.ts_published = Some([kind |-> "iso", t |-> 0])]
     ELSE as[i]]

Ids(as) == [i \in 1..Len(as) |-> as[i].id]

\* C6: the articles kept are those kept when every absent or unparsable
\* timestamp is time zero, and of articles of one key that all lack a
\* timestamp only the first is kept.
C6_NoTimestampIsTimeZero ==
  Returned("filterTemporalDuplicates") =>
    /\ Ids(result) = Ids(filterTemporalDuplicates(AtTimeZero(articles), timeWindowMs))
    /\ (Len(articles) >= 1 /\ AllSameKey(articles)
          /\ \A i \in 1..Len(articles) : LacksTimestamp(articles[i]))
       => result = <<articles[1]>>

\* The first half of C6 alone.
C6_SameAsTimeZero ==
  Returned("filterTemporalDuplicates") =>
    Ids(result) = Ids(filterTemporalDuplicates(AtTimeZero(articles), timeWindowMs))


----------------------------------------------------------------------------
(* Properties of normalizeTickers *)

\* The tokens of a raw string, read off the string itself: the maximal runs
\* of characters that are no comma, whitespace, slash or pipe, uppercased.
RunEnd(s, i) ==
  CHOOSE j \in i..Len(s) :
    /\ \A k \in i..j : s[k] \notin TickerSeps
    /\ j = Len(s) \/ s[j + 1] \in TickerSeps

RECURSIVE RunsFrom(_, _)
RunsFrom(s, i) ==
  IF i > Len(s) THEN <<>>
  ELSE IF s[i] \in TickerSeps THEN RunsFrom(s, i + 1)
       ELSE <<toUpperCase(SubSeq(s, i, RunEnd(s, i)))>> \o RunsFrom(s, RunEnd(s, i) + 1)

RawTokens == RunsFrom(raw, 1)

\* The symbols of a returned string: what stands between its ", ".
SymbolsOf(str) == NonEmpty(split(str, {",", " "}))
ReturnedSymbols == SymbolsOf(tickers)

\* word occurs in token.
OccursIn(word, token) ==
  \E o \in 0..(Len(token) - Len(word)) : SubSeq(token, o + 1, o + Len(word)) = word
ContainsSymbol(token) == \E i \in 1..Len(whitelist) : OccursIn(whitelist[i], token)

FirstIndex(seq, x) ==
  CHOOSE i \in 1..Len(seq) : seq[i] = x /\ \A j \in 1..(i - 1) : seq[j] # x

\* C7: normalizeTickers("MARARIOTBTC") returns "BTC, MARA, RIOT".
C7_ConcatenatedExample ==
  (Returned("normalizeTickers") /\ raw = MARA \o RIOT \o BTC)
  => tickers = BTC \o <<",", " ">> \o MARA \o <<",", " ">> \o RIOT

\* C8: the returned string is a list of whitelist symbols joined by ", " in
\* which no symbol occurs twice.
C8_WhitelistedNoDuplicates ==
  Returned("normalizeTickers") =>
    /\ tickers = join(ReturnedSymbols, <<",", " ">>)
    /\ \A i \in 1..Len(ReturnedSymbols) : whitelistHas(ReturnedSymbols[i])
    /\ \A i, j \in 1..Len(ReturnedSymbols) :
         i # j => ReturnedSymbols[i] # ReturnedSymbols[j]

\* A token that splits into a repeated symbol and pieces that are no symbols.
C8_Witness ==
  /\ Returned("normalizeTickers")
  /\ LET merged == mergeTokens(tickerTokens(raw)) IN
       /\ \E i \in 1..Len(merged) : ~whitelistHas(merged[i])
       /\ \E i, j \in 1..Len(merged) :
            i # j /\ merged[i] = merged[j] /\ whitelistHas(merged[i])
  /\ Len(ReturnedSymbols) >= 2

\* C9 as it stands: when no token is a whitelist symbol the result is empty.
C9_UnknownTokensGiveEmpty ==
  (Returned("normalizeTickers")
     /\ \A i \in 1..Len(RawTokens) : ~whitelistHas(RawTokens[i]))
  => tickers = <<>>

\* C9, amended: when no token is a whitelist symbol and no token of more than
\* 4 characters contains one, the result is empty; so an unknown token of at
\* most 4 characters is dropped whole even when a symbol occurs in it.
C9_UnknownShortOrPlainGiveEmpty ==
  (Returned("normalizeTickers")
     /\ \A i \in 1..Len(RawTokens) :
          /\ ~whitelistHas(RawTokens[i])
          /\ Len(RawTokens[i]) > 4 => ~ContainsSymbol(RawTokens[i]))
  => tickers = <<>>

\* Unknown tokens, one of them of at most 4 characters with a symbol inside,
\* and an empty result.
C9_Witness ==
  /\ Returned("normalizeTickers")
  /\ Len(RawTokens) >= 2
  /\ \A i \in 1..Len(RawTokens) :
       /\ ~whitelistHas(RawTokens[i])
       /\ Len(RawTokens[i]) > 4 => ~ContainsSymbol(RawTokens[i])
  /\ \E i \in 1..Len(RawTokens) : ContainsSymbol(RawTokens[i])
  /\ tickers = <<>>

\* C10: when every token is a whitelist symbol or has at most 4 characters,
\* the result is the whitelist tokens, each once, in the order of their first
\* occurrence, joined by ", ".
C10_FirstSeenOrder ==
  (Returned("normalizeTickers")
     /\ \A i \in 1..Len(RawTokens) :
          whitelistHas(RawTokens[i]) \/ Len(RawTokens[i]) <= 4)
  =>
    /\ tickers = join(ReturnedSymbols, <<",", " ">>)
    /\ {ReturnedSymbols[k] : k \in 1..Len(ReturnedSymbols)}
         = {RawTokens[i] : i \in {j \in 1..Len(RawTokens) : whitelistHas(RawTokens[j])}}
    /\ \A k, l \in 1..Len(ReturnedSymbols) :
         k < l => FirstIndex(RawTokens, ReturnedSymbols[k])
                    < FirstIndex(RawTokens, ReturnedSymbols[l])
    /\ raw = join(<<BTC, ETH, BTC, MARA, ETH>>, <<",", " ">>)
         => tickers = join(<<BTC, ETH, MARA>>, <<",", " ">>)
    /\ raw = BTC \o <<"/">> \o ETH \o <<"|">> \o MARA \o Space \o RIOT
         => tickers = join(<<BTC, ETH, MARA, RIOT>>, <<",", " ">>)

\* "BTC, ETH, BTC, MARA, ETH" has given "BTC, ETH, MARA".
C10_Witness ==
  /\ Returned("normalizeTickers")
  /\ raw = join(<<BTC, ETH, BTC, MARA, ETH>>, <<",", " ">>)
  /\ tickers = join(<<BTC, ETH, MARA>>, <<",", " ">>)

----------------------------------------------------------------------------
(* Algebraic properties of the dedupe steps *)

\* C11: dedupeArticles is idempotent: applied to its own result it returns
\* that result, for the batch read so far and for the array it returned.
C11_DedupeIdempotent ==
  call = "dedupeArticles" =>
    LET once == dedupeArticles(articles) IN
    /\ dedupeArticles(once) = once
    /\ Returned("dedupeArticles") => result = once /\ dedupeArticles(result) = result

\* A batch with a duplicate and two keys has been deduplicated, and a second
\* pass leaves the two articles returned as they are.
C11_Witness ==
  /\ Returned("dedupeArticles")
  /\ Len(articles) = 3
  /\ Len(result) = 2
  /\ dedupeArticles(result) = result

\* The batch cut into the consecutive shards 1..j, j+1..k and k+1..n (any of
\* them may be empty), the step applied to each shard and then to the
\* concatenation of the shard results.
DedupeSharded(as, j, k) ==
  dedupeArticles(dedupeArticles(SubSeq(as, 1, j))
                   \o dedupeArticles(SubSeq(as, j + 1, k))
                   \o dedupeArticles(SubSeq(as, k + 1, Len(as))))

TemporalSharded(as, j, k, windowMs) ==
  filterTemporalDuplicates(
    filterTemporalDuplicates(SubSeq(as, 1, j), windowMs)
      \o filterTemporalDuplicates(SubSeq(as, j + 1, k), windowMs)
      \o filterTemporalDuplicates(SubSeq(as, k + 1, Len(as)), windowMs),
    windowMs)

Cuts(as) == {c \in (0..Len(as)) \X (0..Len(as)) : c[1] <= c[2]}

\* Every article of the batch has an instant after time zero.
AllAfterZero(as) == \A i \in 1..Len(as) : HasInstant(as[i]) /\ PubTime(as[i]) > 0

\* C12: for both dedupe steps, sharding the batch, applying the step per shard
\* and re-applying it to the concatenated shard results gives what the step
\* gives on the whole batch.  (Stated for temporal batches whose articles all
\* have an instant after time zero.)
C12_ShardingEqualsDirect ==
  pc = "done" =>
    /\ call = "dedupeArticles" =>
         \A c \in Cuts(articles) : DedupeSharded(articles, c[1], c[2]) = result
    /\ (call = "filterTemporalDuplicates" /\ AllAfterZero(articles)) =>
         \A c \in Cuts(articles) :
           TemporalSharded(articles, c[1], c[2], timeWindowMs) = result

\* C12, amended: for dedupeArticles the sharded computation equals the direct
\* one, for every cut of the batch into up to three consecutive shards.
C12_DedupeShardingEqualsDirect ==
  call = "dedupeArticles" =>
    \A c \in Cuts(articles) :
      /\ DedupeSharded(articles, c[1], c[2]) = dedupeArticles(articles)
      /\ Returned("dedupeArticles") => DedupeSharded(articles, c[1], c[2]) = result

\* Keys A, B, A cut into three shards of one article: the shard results are
\* the whole batch, and the second pass removes the duplicate across shards.
C12_Witness ==
  /\ Returned("dedupeArticles")
  /\ Len(articles) = 3
  /\ SameKey(articles[1], articles[3])
  /\ ~SameKey(articles[1], articles[2])
  /\ dedupeArticles(SubSeq(articles, 1, 1)) \o dedupeArticles(SubSeq(articles, 2, 2))
       \o dedupeArticles(SubSeq(articles, 3, 3)) = articles
  /\ DedupeSharded(articles, 1, 2) = <<articles[1], articles[2]>>
  /\ result = <<articles[1], articles[2]>>

\* C17: what a dedupe step returns is an order-preserving subsequence of its
\* input: every returned record is the input record at its position in the
\* batch, unmodified, and the positions strictly increase (so no record comes
\* back twice and the relative order is that of the input).
C17_OrderPreservingSubsequence ==
  pc = "done" =>
    /\ \A k \in 1..Len(result) :
         /\ result[k].id \in 1..Len(articles)
         /\ result[k] = articles[result[k].id]
    /\ \A k \in 1..(Len(result) - 1) : result[k].id < result[k + 1].id
    /\ Len(result) <= Len(articles)

\* filterTemporalDuplicates has dropped the middle one of three articles.
C17_Witness ==
  /\ Returned("filterTemporalDuplicates")
  /\ Len(articles) = 3
  /\ AllAfterZero(articles)
  /\ result = <<articles[1], articles[3]>>

\* C27: for every batch and every window, filterTemporalDuplicates keeps the
\* first article of every dedupe key, so deduplicating its result gives what
\* deduplicating the batch gives:
\* dedupeArticles(filterTemporalDuplicates(X, w)) = dedupeArticles(X).
C27_TemporalThenDedupeIsDedupe ==
  Returned("filterTemporalDuplicates") =>
    /\ \A i \in 1..Len(articles) :
         FirstWithKey(articles, i) => \E k \in 1..Len(result) : result[k] = articles[i]
    /\ dedupeArticles(result) = dedupeArticles(articles)

\* filterTemporalDuplicates returned two articles of one key and one of
\* another out of a batch of three: dedupeArticles has a duplicate left to drop.
C27_Witness ==
  /\ Returned("filterTemporalDuplicates")
  /\ Len(articles) = 3 /\ Len(result) = 3
  /\ Len(dedupeArticles(result)) = 2

\* C28: filterTemporalDuplicates is idempotent for a fixed window: applied to
\* its own result with the same window it returns that result unchanged, also
\* when timestamps are missing, zero or unparsable or do not increase.
C28_TemporalIdempotent ==
  Returned("filterTemporalDuplicates") =>
    filterTemporalDuplicates(result, timeWindowMs) = result

\* The times of three articles of one key go down and up again: the second
\* article was dropped and the result is the other two.
C28_Witness ==
  /\ Returned("filterTemporalDuplicates")
  /\ Len(articles) = 3
  /\ \A i \in 1..3 : HasInstant(articles[i])
  /\ PubTime(articles[2]) < PubTime(articles[1])
  /\ result = <<articles[1], articles[3]>>
  /\ AllSameKey(articles)

\* The result kept articles without a timestamp, with time zero and with an
\* unparsable timestamp, all of one key.
C28_WitnessOddTimes ==
  /\ Returned("filterTemporalDuplicates")
  /\ Len(result) = 3
  /\ result[1].ts_published = Undefined
  /\ result[2].ts_published = Some([kind |-> "iso", t |-> 0])
  /\ result[3].ts_published = Some([kind |-> "invalid"])
  /\ AllSameKey(result)

----------------------------------------------------------------------------
(* dedupeArticles on articles of one domain whose titles are close *)

\* The titles of the unit tests of dedupeArticles.
TitleBitcoin124 ==
  <<"B","i","t","c","o","i","n"," ","H","i","t","s"," ","$","1","2","4",",",
    "0","0","0"," ","A","l","l","-","T","i","m","e"," ","H","i","g","h">>
TitleBitcoin125 ==
  <<"B","i","t","c","o","i","n"," ","H","i","t","s"," ","$","1","2","5",",",
    "0","0","0"," ","A","l","l","-","T","i","m","e"," ","H","i","g","h">>

DomainExample == <<"e","x","a","m","p","l","e",".","c","o","m">>
UrlNews == <<"h","t","t","p","s",":","/","/","e","x","a","m","p","l","e",".","c","o","m","/","n","e","w","s">>

\* A Latin letter in both cases, a Cyrillic letter, a space, a punctuation
\* mark, the underscore, a digit and the dollar sign.
TitleChars == {"A", "a", "CYR_B", " ", "!", "_", "1", "$"}

RECURSIVE TitlesUpTo(_)
TitlesUpTo(n) ==
  IF n = 0 THEN {<<>>}
  ELSE LET shorter == TitlesUpTo(n - 1) IN
       shorter \cup {Append(t, c) : t \in shorter, c \in TitleChars}

InsertAt(t, p, c) == SubSeq(t, 1, p) \o <<c>> \o SubSeq(t, p + 1, Len(t))

\* The titles one character away from t: one inserted, or one replaced.
Variants(t) ==
  {InsertAt(t, p, c) : p \in 0..Len(t), c \in TitleChars}
    \cup {[t EXCEPT ![p] = c] : p \in 1..Len(t), c \in TitleChars}

\* Article number id of the domain example.com with the given title.
DigitOf(id) == <<"1", "2", "3">>[id]
TitledArticle(id, title) ==
  MkArticle(id, [title |-> title, sourceUrl |-> Append(UrlNews, DigitOf(id)),
                 sourceDomain |-> Some(DomainExample)], Undefined)

PairBatch(t1, t2) == <<TitledArticle(1, t1), TitledArticle(2, t2)>>
TripleBatch(t1, t2) ==
  <<TitledArticle(1, t1), TitledArticle(2, t1), TitledArticle(3, t2)>>

\* The title without its digits, which is what decides whether the batch of
\* three articles is drawn.
WithoutDigits(t) == SelectSeq(t, LAMBDA c : c \notin DigitChars)

\* Two articles with a title and a variant of it, three articles with a title
\* twice and a variant that differs in digits only, and the batches of the
\* unit tests.
InitTitles ==
  /\ ServiceIdle
  /\ call = "dedupeArticles" /\ timeWindowMs = 0
  /\ \/ \E t1 \in TitlesUpTo(MaxTitleLen) : \E t2 \in Variants(t1) :
          \/ articles = PairBatch(t1, t2)
          \/ WithoutDigits(t1) = WithoutDigits(t2) /\ articles = TripleBatch(t1, t2)
     \/ articles = PairBatch(TitleBitcoin124, TitleBitcoin125)
     \/ articles = TripleBatch(TitleBitcoin124, TitleBitcoin125)
  /\ seen = <<>>
  /\ filtered = <<>>
  /\ result = <<>>
  /\ pc = "call"
  /\ raw = <<>> /\ tickers = <<>>

\* dedupeArticles(articles), the whole call.
DedupeTitles ==
  /\ pc = "call" /\ call = "dedupeArticles"
  /\ seen' = dedupeFold(<<>>, articles)
  /\ result' = MapValues(seen')
  /\ pc' = "done"
  /\ UNCHANGED <<call, articles, timeWindowMs, filtered, raw, tickers>>
  /\ UNCHANGED serviceVars

NextTitles == DedupeTitles

SpecTitles == InitTitles /\ [][NextTitles]_vars

----------------------------------------------------------------------------
(* Properties of the dedupe key *)

IsLatinLetter(c) == c \in UpperSet \/ c \in LowerSet
IsCyrillicLetter(c) ==
  \E i \in 1..Len(CyrUpperChars) : c = CyrUpperChars[i] \/ c = CyrLowerChars[i]
IsLetter(c) == IsLatinLetter(c) \/ IsCyrillicLetter(c)

\* The letters of a title, lowercased, in their order.
Letters(t) == SelectSeq(toLowerCase(t), IsLetter)
\* The title without its punctuation, digits and currency characters,
\* lowercased: its letters and its whitespace.
Skeleton(t) == SelectSeq(toLowerCase(t), LAMBDA c : IsLetter(c) \/ IsSpace(c))

Has(t, c) == \E i \in 1..Len(t) : t[i] = c
SameDomain(a, b) == a.sourceDomain = b.sourceDomain /\ a.sourceDomain # Undefined

\* C14: two articles of one domain whose titles differ only in letter case,
\* punctuation, digits or currency characters have the same dedupe key, and
\* dedupeArticles returns only the first of them.
C14_KeyInsensitiveToCasePunctuationAmounts ==
  (Returned("dedupeArticles") /\ Len(articles) = 2
     /\ SameDomain(articles[1], articles[2])
     /\ Skeleton(articles[1].title) = Skeleton(articles[2].title))
  =>
    /\ SameKey(articles[1], articles[2])
    /\ result = <<articles[1]>>

\* C14, what does hold: the same when neither title has an underscore.
C14_InsensitiveButForUnderscore ==
  (Returned("dedupeArticles") /\ Len(articles) = 2
     /\ SameDomain(articles[1], articles[2])
     /\ Skeleton(articles[1].title) = Skeleton(articles[2].title)
     /\ ~Has(articles[1].title, "_") /\ ~Has(articles[2].title, "_"))
  =>
    /\ SameKey(articles[1], articles[2])
    /\ result = <<articles[1]>>

\* C15: the normalized title has every letter of the title, Latin or
\* Cyrillic, lowercased and in order, so two articles of one domain whose
\* titles differ in a letter have different keys and are both returned.
C15_EveryLetterKept ==
  (Returned("dedupeArticles") /\ Len(articles) = 2
     /\ SameDomain(articles[1], articles[2]))
  =>
    /\ \A i \in 1..2 :
         Letters(normalizeTitle(articles[i].title)) = Letters(articles[i].title)
    /\ Letters(articles[1].title) # Letters(articles[2].title)
         => ~SameKey(articles[1], articles[2]) /\ result = articles

\* C15, what does hold: the same for titles without Cyrillic letters.
C15_EveryLatinLetterKept ==
  (Returned("dedupeArticles") /\ Len(articles) = 2
     /\ SameDomain(articles[1], articles[2])
     /\ \A i \in 1..2 : \A j \in 1..Len(articles[i].title) :
          ~IsCyrillicLetter(articles[i].title[j]))
  =>
    /\ \A i \in 1..2 :
         Letters(normalizeTitle(articles[i].title)) = Letters(articles[i].title)
    /\ Letters(articles[1].title) # Letters(articles[2].title)
         => ~SameKey(articles[1], articles[2]) /\ result = articles

\* The first two articles have one title and the third title differs from it
\* in its digits only.
ThirdDiffersInNumber(as) ==
  /\ Len(as) = 3
  /\ as[1].title = as[2].title
  /\ as[3].title # as[1].title
  /\ WithoutDigits(as[3].title) = WithoutDigits(as[1].title)
  /\ SameDomain(as[1], as[2]) /\ SameDomain(as[1], as[3])

----------------------------------------------------------------------------
(* groupArticlesByTopic *)

\* s.split(' '): the pieces between the spaces, one piece when there is none.
RECURSIVE splitBySpace(_)
splitBySpace(s) ==
  IF \E i \in 1..Len(s) : s[i] = " "
  THEN LET i == CHOOSE i \in 1..Len(s) : s[i] = " " /\ \A j \in 1..(i - 1) : s[j] # " "
       IN  <<SubSeq(s, 1, i - 1)>> \o splitBySpace(SubSeq(s, i + 1, Len(s)))
  ELSE <<s>>

\* The UTF-16 code unit of a character of a normalized title: [a-z_].
CharCode(c) == IF c = "_" THEN 95 ELSE 96 + IndexIn(LowerChars, c)

\* a < b as Array.prototype.sort compares strings: by code units, a proper
\* prefix first.
RECURSIVE StrLess(_, _)
StrLess(a, b) ==
  IF b = <<>> THEN FALSE
  ELSE IF a = <<>> THEN TRUE
  ELSE IF Head(a) = Head(b) THEN StrLess(Tail(a), Tail(b))
  ELSE CharCode(Head(a)) < CharCode(Head(b))

RECURSIVE insertSorted(_, _)
insertSorted(sorted, w) ==
  IF sorted = <<>> THEN <<w>>
  ELSE IF StrLess(w, Head(sorted)) THEN <<w>> \o sorted
  ELSE <<Head(sorted)>> \o insertSorted(Tail(sorted), w)

\* arr.sort()
RECURSIVE sort(_)
sort(arr) ==
  IF arr = <<>> THEN <<>>
  ELSE insertSorted(sort(SubSeq(arr, 1, Len(arr) - 1)), arr[Len(arr)])

\* arr.slice(0, 3)
slice3(arr) == SubSeq(arr, 1, IF Len(arr) < 3 THEN Len(arr) ELSE 3)

\* Mutant of LongWord: words of 3 characters count as well.
LongWordFrom3(word) == Len(word) > 2

\* word => word.length > 3
LongWord(word) == Len(word) > 3

Other == <<"o","t","h","e","r">>

\* Mutant of extractTopicKey: the words are sorted before the first three
\* are taken.
extractTopicKeySortFirst(title) ==
  LET words == join(slice3(sort(SelectSeq(splitBySpace(normalizeTitle(title)), LongWord))),
                    <<" ">>)
  IN  IF words # <<>> THEN words ELSE Other

extractTopicKey(title) ==
  LET words == join(sort(slice3(SelectSeq(splitBySpace(normalizeTitle(title)), LongWord))),
                    <<" ">>)
  IN  IF words # <<>> THEN words ELSE Other

\* One iteration of the loop of groupArticlesByTopic (lines 55-64).
groupStep(groups, article) ==
  LET topicKey == extractTopicKey(article.title)
      withKey  == IF ~MapHas(groups, topicKey) THEN MapSet(groups, topicKey, <<>>)
                  ELSE groups
  IN  MapSet(withKey, topicKey, Append(MapGet(withKey, topicKey), article))

RECURSIVE groupFold(_, _)
groupFold(groups, as) ==
  IF as = <<>> THEN groups ELSE groupFold(groupStep(groups, Head(as)), Tail(as))

groupArticlesByTopic(as) == MapValues(groupFold(<<>>, as))

----------------------------------------------------------------------------
(* Whole calls on batches that may hold malformed records *)

\* title.toLowerCase() (text.ts:100) on a record without title: a TypeError.
normalizeTitleThrows(title) == title = Undefined

\* generateDedupeKey and extractTopicKey both normalize the title first: the
\* call throws at the first record without one.
Throws(objs) == \E i \in 1..Len(objs) : normalizeTitleThrows(objs[i].title)

StrUndefined == <<"u","n","d","e","f","i","n","e","d">>

\* The record as the key functions read it.  A record without sourceUrl:
\* new URL(undefined) throws, extractDomain returns undefined from its catch
\* and the template string of generateDedupeKey writes "undefined", which is
\* what the string "undefined" as sourceUrl gives too.
ToArticle(obj) ==
  [id |-> obj.id, title |-> obj.title.v,
   sourceUrl |-> IF obj.sourceUrl = Undefined THEN StrUndefined ELSE obj.sourceUrl.v,
   sourceDomain |-> obj.sourceDomain, ts_published |-> obj.ts_published]
ToArticles(objs) == [i \in 1..Len(objs) |-> ToArticle(objs[i])]
\* The records of the batch that the articles stand for.
FromArticles(objs, as) == [k \in 1..Len(as) |-> objs[as[k].id]]

\* The titles of the unit tests of groupArticlesByTopic, and one more.
TitleBitcoinPrice ==
  <<"B","i","t","c","o","i","n"," ","P","r","i","c","e"," ","S","u","r","g",
    "e","s"," ","t","o"," ","N","e","w"," ","H","i","g","h">>
TitleBitcoinMarket ==
  <<"B","i","t","c","o","i","n"," ","M","a","r","k","e","t"," ","A","n","a",
    "l","y","s","i","s"," ","S","h","o","w","s"," ","B","u","l","l","i","s",
    "h"," ","T","r","e","n","d">>
TitleEthereum ==
  <<"E","t","h","e","r","e","u","m"," ","D","e","v","e","l","o","p","m","e",
    "n","t"," ","U","p","d","a","t","e">>
TitleSurges ==
  <<"B","i","t","c","o","i","n"," ","P","r","i","c","e"," ","S","u","r","g",
    "e","s">>

\* Well-formed records and records with one thing missing or malformed.
CallPool ==
  { [title |-> Some(TitleBitcoinPrice), sourceUrl |-> Some(Append(UrlNews, "1")),
     sourceDomain |-> Undefined, ts_published |-> Some([kind |-> "iso", t |-> 1])],
    [title |-> Some(TitleBitcoinMarket), sourceUrl |-> Some(Append(UrlNews, "2")),
     sourceDomain |-> Undefined, ts_published |-> Some([kind |-> "iso", t |-> 2])],
    [title |-> Some(TitleEthereum), sourceUrl |-> Some(Append(UrlNews, "3")),
     sourceDomain |-> Undefined, ts_published |-> Some([kind |-> "iso", t |-> 3])],
    [title |-> Some(TitleSurges), sourceUrl |-> Some(Append(UrlNews, "1")),
     sourceDomain |-> Undefined, ts_published |-> Some([kind |-> "iso", t |-> 4])],
    [title |-> Some(BTC), sourceUrl |-> Some(Append(UrlNews, "1")),
     sourceDomain |-> Undefined, ts_published |-> Undefined],
    [title |-> Some(ETH), sourceUrl |-> Some(NotAUrl),
     sourceDomain |-> Undefined, ts_published |-> Some([kind |-> "invalid"])],
    [title |-> Some(ETH), sourceUrl |-> Undefined,
     sourceDomain |-> Undefined, ts_published |-> Some([kind |-> "iso", t |-> 1])],
    [title |-> Undefined, sourceUrl |-> Some(Append(UrlNews, "2")),
     sourceDomain |-> Undefined, ts_published |-> Some([kind |-> "iso", t |-> 1])] }

\* The batches of at most MaxBatch records of the pool, numbered in order.
CallBatches ==
  UNION { { [i \in 1..n |-> [id |-> i, title |-> f[i].title, sourceUrl |-> f[i].sourceUrl,
                             sourceDomain |-> f[i].sourceDomain,
                             ts_published |-> f[i].ts_published]]
            : f \in [1..n -> CallPool] }
          : n \in 0..MaxBatch }

InitCalls ==
  /\ ServiceIdle
  /\ \/ call \in {"dedupeArticles", "groupArticlesByTopic"} /\ timeWindowMs = 0
     \/ call = "filterTemporalDuplicates" /\ timeWindowMs \in 0..MaxWindow
  /\ articles \in CallBatches
  /\ seen = <<>>
  /\ filtered = <<>>
  /\ result = <<>>
  /\ pc = "call"
  /\ raw = <<>> /\ tickers = <<>>

\* dedupeArticles(articles): the result, or the TypeError.
CallDedupeArticles ==
  /\ pc = "call" /\ call = "dedupeArticles"
  /\ IF Throws(articles)
     THEN pc' = "threw" /\ UNCHANGED result
     ELSE /\ result' = FromArticles(articles, dedupeArticles(ToArticles(articles)))
          /\ pc' = "done"
  /\ UNCHANGED <<call, articles, timeWindowMs, seen, filtered, raw, tickers>>
  /\ UNCHANGED serviceVars

\* filterTemporalDuplicates(articles, timeWindowMs)
CallFilterTemporalDuplicates ==
  /\ pc = "call" /\ call = "filterTemporalDuplicates"
  /\ IF Throws(articles)
     THEN pc' = "threw" /\ UNCHANGED result
     ELSE /\ result' = FromArticles(articles,
                         filterTemporalDuplicates(ToArticles(articles), timeWindowMs))
          /\ pc' = "done"
  /\ UNCHANGED <<call, articles, timeWindowMs, seen, filtered, raw, tickers>>
  /\ UNCHANGED serviceVars

\* groupArticlesByTopic(articles); seen keeps the Map of the groups.
CallGroupArticlesByTopic ==
  /\ pc = "call" /\ call = "groupArticlesByTopic"
  /\ IF Throws(articles)
     THEN pc' = "threw" /\ UNCHANGED <<seen, result>>
     ELSE LET groups == groupFold(<<>>, ToArticles(articles)) IN
          /\ seen' = [g \in 1..Len(groups) |->
                        [k |-> groups[g].k, v |-> FromArticles(articles, groups[g].v)]]
          /\ result' = MapValues(seen')
          /\ pc' = "done"
  /\ UNCHANGED <<call, articles, timeWindowMs, filtered, raw, tickers>>
  /\ UNCHANGED serviceVars

NextCalls ==
  CallDedupeArticles \/ CallFilterTemporalDuplicates \/ CallGroupArticlesByTopic

SpecCalls == InitCalls /\ [][NextCalls]_vars

----------------------------------------------------------------------------
(* Properties of the whole calls *)

\* C13: no call throws: dedupeArticles, filterTemporalDuplicates and
\* groupArticlesByTopic return a result for every batch, also when a record
\* lacks its title, its URL or its timestamp or has a malformed one.
C13_NoOperationThrows == pc # "threw"

\* C13, what does hold: a call throws exactly when a record has no title; a
\* missing or malformed URL or timestamp never makes it throw.
C13_ThrowsOnlyWithoutTitle ==
  pc # "call" =>
    (pc = "threw" <=> \E i \in 1..Len(articles) : articles[i].title = Undefined)

\* The words of the normalized title that have more than 3 characters.
LongWordsOf(title) ==
  SelectSeq(splitBySpace(normalizeTitle(title)), LAMBDA w : Len(w) > 3)

\* The topic key as C18 words it: the long words sorted, then the first 3.
SortedThenFirstThree(title) ==
  LET words == slice3(sort(LongWordsOf(title))) IN
  IF words = <<>> THEN Other ELSE join(words, <<" ">>)

InGroup(g, a) == \E m \in 1..Len(result[g]) : result[g][m] = a
SameGroup(a, b) == \E g \in 1..Len(result) : InGroup(g, a) /\ InGroup(g, b)

\* C18: the key of every group is, for each of its members, the long words of
\* the normalized title sorted alphabetically, the first 3 of the sorted words
\* joined by spaces ("other" without long words); two articles are in one
\* group exactly when these keys are equal.
C18_TopicKeySortedThenFirstThree ==
  Returned("groupArticlesByTopic") =>
    /\ \A g \in 1..Len(seen) : \A m \in 1..Len(seen[g].v) :
         seen[g].k = SortedThenFirstThree(seen[g].v[m].title.v)
    /\ \A i, j \in 1..Len(articles) :
         SameGroup(articles[i], articles[j])
           <=> SortedThenFirstThree(articles[i].title.v)
                 = SortedThenFirstThree(articles[j].title.v)

Ascending(words) == \A i \in 1..(Len(words) - 1) : ~StrLess(words[i + 1], words[i])
Rearrangements(words) ==
  { [i \in 1..Len(words) |-> words[p[i]]] :
      p \in {q \in [1..Len(words) -> 1..Len(words)] :
               \A i, j \in 1..Len(words) : i # j => q[i] # q[j]} }

\* The key is the first 3 long words of the title, in ascending order.
IsFirstThreeThenSorted(key, title) ==
  LET first == slice3(LongWordsOf(title)) IN
  IF first = <<>> THEN key = Other
  ELSE \E words \in Rearrangements(first) : Ascending(words) /\ key = join(words, <<" ">>)

\* C18, amended: the key is made of the first 3 long words of the normalized
\* title in title order, sorted alphabetically afterwards; two articles are in
\* one group exactly when these keys are equal; every article is in one group,
\* the groups come in the order of their first article and hold their
\* articles in the order of the batch.
C18_TopicKeyFirstThreeThenSorted ==
  Returned("groupArticlesByTopic") =>
    /\ \A g \in 1..Len(seen) : \A m \in 1..Len(seen[g].v) :
         IsFirstThreeThenSorted(seen[g].k, seen[g].v[m].title.v)
    /\ \A i, j \in 1..Len(articles) :
         SameGroup(articles[i], articles[j])
           <=> \E key \in {seen[g].k : g \in 1..Len(seen)} :
                 /\ IsFirstThreeThenSorted(key, articles[i].title.v)
                 /\ IsFirstThreeThenSorted(key, articles[j].title.v)
    /\ \A i \in 1..Len(articles) : SameGroup(articles[i], articles[i])
    /\ \A g \in 1..Len(result) :
         /\ result[g] # <<>>
         /\ \A m \in 1..(Len(result[g]) - 1) : result[g][m].id < result[g][m + 1].id
         /\ g < Len(result) => result[g][1].id < result[g + 1][1].id

\* "Bitcoin Price Surges to New High" and "Bitcoin Price Surges" are in one
\* group, under the key "bitcoin price surges"; sorted first, the long words
\* of the first title would have given "bitcoin high price".
C18_Witness ==
  /\ Returned("groupArticlesByTopic")
  /\ Len(articles) = 2
  /\ articles[1].title = Some(TitleBitcoinPrice)
  /\ articles[2].title = Some(TitleSurges)
  /\ result = <<articles>>
  /\ seen[1].k = normalizeTitle(TitleSurges)
  /\ SortedThenFirstThree(TitleBitcoinPrice) # seen[1].k

\* No word of the title has more than 3 characters.
ShortWordsOnly(title) ==
  ~\E i \in 1..(Len(title) - 3) : \A j \in i..(i + 3) : ~IsSpace(title[j])

TwoShortTitles ==
  /\ Returned("groupArticlesByTopic")
  /\ Len(articles) = 2
  /\ articles[1].title # articles[2].title
  /\ ShortWordsOnly(articles[1].title.v) /\ ShortWordsOnly(articles[2].title.v)

----------------------------------------------------------------------------
(* truncateByWords *)

\* U+2026, written by name
Ellipsis == "HELLIP"

\* maxWords = 22
DefaultMaxWords == 22
maxWordsOrDefault(arg) == IF arg = Undefined THEN DefaultMaxWords ELSE arg.v

\* Mutant of truncateByWords: the text is split without being trimmed.
truncateByWordsNoTrim(text, maxWords) ==
  IF ~TruthyStr(text) THEN <<>>
  ELSE LET words == split(text.v, SpaceSeps) IN
       IF Len(words) <= maxWordsOrDefault(maxWords) THEN text.v
       ELSE join(SubSeq(words, 1, maxWordsOrDefault(maxWords)), <<" ">>) \o <<Ellipsis>>

truncateByWords(text, maxWords) ==
  IF ~TruthyStr(text) THEN <<>>
  ELSE LET words == split(trim(text.v), SpaceSeps) IN
       IF Len(words) <= maxWordsOrDefault(maxWords) THEN text.v
       ELSE join(SubSeq(words, 1, maxWordsOrDefault(maxWords)), <<" ">>) \o <<Ellipsis>>

\* Two letters and two kinds of whitespace.
TextChars == {"a", "b", " ", "\t"}

RECURSIVE TextsUpTo(_)
TextsUpTo(n) ==
  IF n = 0 THEN {<<>>}
  ELSE LET shorter == TextsUpTo(n - 1) IN
       shorter \cup {Append(t, c) : t \in shorter, c \in TextChars}

\* The first 7 words of the text of the truncation unit test.
TestText ==
  <<"T","h","i","s"," ","i","s"," ","a"," ","v","e","r","y"," ","l","o","n","g"," ","t","e","x","t"," ","t","h","a","t">>

InitTruncate ==
  /\ ServiceIdle
  /\ call = "truncateByWords"
  /\ \E text \in {Undefined} \cup {Some(t) : t \in TextsUpTo(MaxTextLen) \cup {TestText}} :
       \E maxWords \in {Undefined} \cup {Some(n) : n \in 0..MaxWords} :
         raw = [text |-> text, maxWords |-> maxWords]
  /\ result = <<>>
  /\ pc = "call"
  /\ articles = <<>> /\ timeWindowMs = 0 /\ seen = <<>>
  /\ filtered = <<>> /\ tickers = <<>>

TruncateByWords ==
  /\ pc = "call" /\ call = "truncateByWords"
  /\ result' = truncateByWords(raw.text, raw.maxWords)
  /\ pc' = "done"
  /\ UNCHANGED <<call, articles, timeWindowMs, seen, filtered, raw, tickers>>
  /\ UNCHANGED serviceVars

NextTruncate == TruncateByWords

SpecTruncate == InitTruncate /\ [][NextTruncate]_vars

\* The number of words of a text: its maximal runs of non-whitespace.
WordCount(text) ==
  Cardinality({i \in 1..Len(text) :
                 ~IsSpace(text[i]) /\ (i = 1 \/ IsSpace(text[i - 1]))})

LimitOf(arg) == IF arg = Undefined THEN DefaultMaxWords ELSE arg.v

\* C20: for every text and every maxWords >= 0 that is at least the number of
\* words of the text, truncateByWords returns the text unchanged; an empty or
\* absent text gives the empty string.
C20_NoOpUnderLimit ==
  Returned("truncateByWords") =>
    /\ (raw.text = Undefined \/ raw.text = Some(<<>>)) => result = <<>>
    /\ (raw.text # Undefined /\ LimitOf(raw.maxWords) >= WordCount(raw.text.v))
         => result = raw.text.v

\* C20, what does hold: the same for a text that has a word or a maxWords of
\* at least 1.
C20_NoOpUnderLimitButBlank ==
  Returned("truncateByWords") =>
    /\ (raw.text = Undefined \/ raw.text = Some(<<>>)) => result = <<>>
    /\ (raw.text # Undefined /\ LimitOf(raw.maxWords) >= WordCount(raw.text.v)
          /\ (WordCount(raw.text.v) > 0 \/ LimitOf(raw.maxWords) > 0 \/ raw.text.v = <<>>))
         => result = raw.text.v

\* The words of a text, read off the text itself: its maximal runs of
\* non-whitespace, in order.
WordEnd(s, i) ==
  CHOOSE j \in i..Len(s) :
    /\ \A k \in i..j : ~IsSpace(s[k])
    /\ j = Len(s) \/ IsSpace(s[j + 1])

RECURSIVE WordsFrom(_, _)
WordsFrom(s, i) ==
  IF i > Len(s) THEN <<>>
  ELSE IF IsSpace(s[i]) THEN WordsFrom(s, i + 1)
       ELSE <<SubSeq(s, i, WordEnd(s, i))>> \o WordsFrom(s, WordEnd(s, i) + 1)

Truncating ==
  /\ Returned("truncateByWords")
  /\ raw.text # Undefined
  /\ LimitOf(raw.maxWords) >= 1
  /\ WordCount(raw.text.v) > LimitOf(raw.maxWords)

----------------------------------------------------------------------------
(* detectLanguage *)

\* Further characters, written by name: "CYR_IO" is U+0401, "cyr_io" U+0451
\* (both in the class of line 73), "cyr_ukr_i" is U+0456, a Cyrillic letter
\* outside the ranges of that class, "e_acute" is U+00E9, a Latin letter
\* outside A-Z and a-z.
\* /[А-Яа-яЁё]/
MatchesCyrillicClass(c) ==
  \/ \E i \in 1..Len(CyrUpperChars) : c = CyrUpperChars[i] \/ c = CyrLowerChars[i]
  \/ c \in {"CYR_IO", "cyr_io"}

\* /[A-Za-z]/
MatchesLatinClass(c) == c \in UpperSet \/ c \in LowerSet

\* Mutant of detectLanguage: the Latin test comes first.
detectLanguageLatinFirst(text) ==
  IF ~TruthyStr(text) THEN "unknown"
  ELSE IF \E i \in 1..Len(text.v) : MatchesLatinClass(text.v[i]) THEN "en"
  ELSE IF \E i \in 1..Len(text.v) : MatchesCyrillicClass(text.v[i]) THEN "ru"
  ELSE "unknown"

detectLanguage(text) ==
  IF ~TruthyStr(text) THEN "unknown"
  ELSE IF \E i \in 1..Len(text.v) : MatchesCyrillicClass(text.v[i]) THEN "ru"
  ELSE IF \E i \in 1..Len(text.v) : MatchesLatinClass(text.v[i]) THEN "en"
  ELSE "unknown"

DetectChars == {"a", "Z", "CYR_B", "cyr_io", "cyr_ukr_i", "e_acute", "1", "!", " "}

RECURSIVE DetectTextsUpTo(_)
DetectTextsUpTo(n) ==
  IF n = 0 THEN {<<>>}
  ELSE LET shorter == DetectTextsUpTo(n - 1) IN
       shorter \cup {Append(t, c) : t \in shorter, c \in DetectChars}

\* Texts of the unit tests ("САА Альянс" by the names of its letters).
DetectTestTexts ==
  { <<"S","A","A"," ","A","l","l","i","a","n","c","e">>,
    <<"CYR_S","CYR_A","CYR_A"," ","CYR_A","cyr_l","cyr_soft","cyr_ya","cyr_n","cyr_s">>,
    <<"1","2","3","4","5","6">>,
    <<"!","@","#","$","%">> }

InitDetect ==
  /\ ServiceIdle
  /\ call = "detectLanguage"
  /\ \E text \in {Undefined} \cup {Some(t) : t \in DetectTextsUpTo(MaxDetectLen) \cup DetectTestTexts} :
       raw = [text |-> text]
  /\ result = <<>>
  /\ pc = "call"
  /\ articles = <<>> /\ timeWindowMs = 0 /\ seen = <<>>
  /\ filtered = <<>> /\ tickers = <<>>

DetectLanguage ==
  /\ pc = "call" /\ call = "detectLanguage"
  /\ result' = detectLanguage(raw.text)
  /\ pc' = "done"
  /\ UNCHANGED <<call, articles, timeWindowMs, seen, filtered, raw, tickers>>
  /\ UNCHANGED serviceVars

NextDetect == DetectLanguage

SpecDetect == InitDetect /\ [][NextDetect]_vars

----------------------------------------------------------------------------
(* Properties of detectLanguage *)

\* A Cyrillic character, a Latin letter: whatever the script has, not only
\* what the two classes of the code list.
IsCyrillicChar(c) == MatchesCyrillicClass(c) \/ c = "cyr_ukr_i"
IsLatinChar(c) == c \in UpperSet \/ c \in LowerSet \/ c = "e_acute"

HasCyrillic(t) == \E i \in 1..Len(t) : IsCyrillicChar(t[i])
HasLatin(t) == \E i \in 1..Len(t) : IsLatinChar(t[i])

\* C22: 'ru' for every string with a Cyrillic character, whatever Latin
\* characters it has; 'en' for every string with a Latin letter and no
\* Cyrillic character; 'unknown' for an empty or absent text and for strings
\* of digits and symbols only.
C22_LanguageByScript ==
  Returned("detectLanguage") =>
    IF raw.text = Undefined \/ raw.text = Some(<<>>) THEN result = "unknown"
    ELSE IF HasCyrillic(raw.text.v) THEN result = "ru"
    ELSE IF HasLatin(raw.text.v) THEN result = "en"
    ELSE result = "unknown"

\* C22, what does hold: the same for texts whose Cyrillic characters are all
\* in А-Я, а-я, Ё, ё and whose Latin letters are all in A-Z, a-z.
C22_LanguageByListedLetters ==
  (Returned("detectLanguage") /\ raw.text # Undefined
     /\ \A i \in 1..Len(raw.text.v) : raw.text.v[i] \notin {"cyr_ukr_i", "e_acute"})
  =>
    IF raw.text = Some(<<>>) THEN result = "unknown"
    ELSE IF HasCyrillic(raw.text.v) THEN result = "ru"
    ELSE IF HasLatin(raw.text.v) THEN result = "en"
    ELSE result = "unknown"

----------------------------------------------------------------------------
(* extractDomain *)

UrlSchemes == {<<>>, <<"h","t","t","p","s",":","/","/">>, <<"h","t","t","p",":","/","/">>, <<"H","T","T","P","S",":","/","/">>}
UrlHosts == {DomainA, <<"A",".","i","o">>, DomainExample, NotAUrl, <<"l","o","c","a","l","h","o","s","t">>}
UrlPieces == {<<"/">>, <<"p","a","t","h">>, <<"?","q","u","e","r","y","=","1">>, <<"#","t","o","p">>, <<"n","e","w","s","1">>}

RECURSIVE UrlTails(_)
UrlTails(n) ==
  IF n = 0 THEN {<<>>}
  ELSE LET shorter == UrlTails(n - 1) IN
       shorter \cup {t \o p : t \in shorter, p \in UrlPieces}

\* The URLs of the unit tests, the empty string and a scheme with no host.
TestUrls ==
  { <<"h","t","t","p","s",":","/","/","e","x","a","m","p","l","e",".","c","o","m","/","p","a","t","h","?","q","u","e","r","y","=","1">>,
    NotAUrl, <<>>, <<"h","t","t","p","s",":","/","/">> }

InitDomain ==
  /\ ServiceIdle
  /\ call = "extractDomain"
  /\ \E url \in {s \o h \o t : s \in UrlSchemes, h \in UrlHosts, t \in UrlTails(MaxUrlPieces)}
                  \cup TestUrls :
       raw = [url |-> url]
  /\ result = <<>>
  /\ pc = "call"
  /\ articles = <<>> /\ timeWindowMs = 0 /\ seen = <<>>
  /\ filtered = <<>> /\ tickers = <<>>

\* extractDomain(url): the hostname from the try block, or url from the
\* catch block; either way the function returns.
ExtractDomain ==
  /\ pc = "call" /\ call = "extractDomain"
  /\ result' = extractDomain(raw.url)
  /\ pc' = "done"
  /\ UNCHANGED <<call, articles, timeWindowMs, seen, filtered, raw, tickers>>
  /\ UNCHANGED serviceVars

NextDomain == ExtractDomain

SpecDomain == InitDomain /\ [][NextDomain]_vars

\* The string is a scheme of letters, "://" and a host that is not empty.
HasSchemeAndHost(u) ==
  \E c \in 2..(Len(u) - 3) :
    /\ SubSeq(u, c, c + 2) = <<":", "/", "/">>
    /\ u[c + 3] \notin HostEnds
    /\ \A j \in 1..(c - 1) : IsLatinLetter(u[j])

\* The host of u is at c + 3 .. e: what follows the "://" at c, up to the end
\* of the string or the first "/", "?" or "#".
IsHostSpan(u, c, e) ==
  /\ SubSeq(u, c, c + 2) = <<":", "/", "/">>
  /\ e = Len(u) \/ u[e + 1] \in HostEnds
  /\ \A j \in (c + 3)..e : u[j] \notin HostEnds
  /\ \A j \in 1..(c - 1) : IsLatinLetter(u[j])

\* C23: extractDomain returns for every string: the hostname (the host in
\* lower case) for one that parses as a URL, the string itself, unchanged, for
\* one that does not.
C23_HostnameOrInputUnchanged ==
  /\ pc # "threw"
  /\ Returned("extractDomain") =>
       IF HasSchemeAndHost(raw.url)
       THEN \E c \in 2..(Len(raw.url) - 3) : \E e \in (c + 3)..Len(raw.url) :
              /\ IsHostSpan(raw.url, c, e)
              /\ result = toLowerCase(SubSeq(raw.url, c + 3, e))
       ELSE result = raw.url

\* "HTTPS://A.io/path" has given "a.io".
C23_Witness ==
  /\ Returned("extractDomain")
  /\ raw.url = <<"H","T","T","P","S",":","/","/","A",".","i","o","/","p","a","t","h">>
  /\ result = DomainA

\* "not-a-url" has come back as it is.
C23_WitnessUnparsed ==
  /\ Returned("extractDomain")
  /\ raw.url = NotAUrl
  /\ result = NotAUrl

----------------------------------------------------------------------------
(* Successive calls of the functions of dedupe.ts *)

\* `new Map()` and `[]` at the head of a function body: a fresh, empty
\* collection, whatever an earlier invocation left in its own.
newMap(left) == <<>>

\* Mutant of newArray: the array outlives the invocation, as a module-level
\* array would.
newArrayKept(left) == left

newArray(left) == <<>>

SessionTimes == {0, 1, 2}

\* Articles of one dedupe key without a timestamp, with an unparsable one and
\* at three instants, and an article of another key.
SessionPool ==
  {[src |-> SourceHits2, ts |-> ts] :
     ts \in {Undefined, Some([kind |-> "invalid"])}
               \cup {Some([kind |-> "iso", t |-> t]) : t \in SessionTimes}}
    \cup {[src |-> SourceUp, ts |-> Some([kind |-> "iso", t |-> 1])]}

SessionBatches ==
  UNION { { [i \in 1..n |-> MkArticle(i, f[i].src, f[i].ts)] : f \in [1..n -> SessionPool] }
          : n \in 0..MaxBatch }

\* The function called and its window.
SessionChoice(c, w) ==
  \/ c \in {"dedupeArticles", "groupArticlesByTopic"} /\ w = 0
  \/ c = "filterTemporalDuplicates" /\ w \in {0, MaxWindow}

InitSession ==
  /\ ServiceIdle
  /\ raw = <<>> /\ tickers = <<>>
  /\ articles \in SessionBatches
  /\ SessionChoice(call, timeWindowMs)
  /\ seen = <<>>
  /\ filtered = <<>>
  /\ result = <<>>
  /\ pc = "call"

\* dedupeArticles(articles), from `new Map()` to the return.
SessionDedupeArticles ==
  /\ pc = "call" /\ call = "dedupeArticles"
  /\ seen' = dedupeFold(newMap(seen), articles)
  /\ result' = MapValues(seen')
  /\ pc' = "done"
  /\ UNCHANGED <<call, articles, timeWindowMs, filtered, raw, tickers>>
  /\ UNCHANGED serviceVars

\* filterTemporalDuplicates(articles, timeWindowMs), from `[]` and `new Map()`
\* to the return.
SessionFilterTemporalDuplicates ==
  /\ pc = "call" /\ call = "filterTemporalDuplicates"
  /\ LET st == ftdFold([filtered |-> newArray(filtered), seen |-> newMap(seen)],
                       articles, timeWindowMs)
     IN  /\ filtered' = st.filtered
         /\ seen' = st.seen
         /\ result' = st.filtered
  /\ pc' = "done"
  /\ UNCHANGED <<call, articles, timeWindowMs, raw, tickers>>
  /\ UNCHANGED serviceVars

\* groupArticlesByTopic(articles), from `new Map()` to the return.
SessionGroupArticlesByTopic ==
  /\ pc = "call" /\ call = "groupArticlesByTopic"
  /\ seen' = groupFold(newMap(seen), articles)
  /\ result' = MapValues(seen')
  /\ pc' = "done"
  /\ UNCHANGED <<call, articles, timeWindowMs, filtered, raw, tickers>>
  /\ UNCHANGED serviceVars

\* The caller calls a function again on the same array; what the finished
\* invocation had in its locals stays where it was.
SessionNextCall ==
  /\ pc = "done"
  /\ \E c \in {"dedupeArticles", "filterTemporalDuplicates", "groupArticlesByTopic"},
        w \in {0, MaxWindow} :
       /\ SessionChoice(c, w)
       /\ call' = c
       /\ timeWindowMs' = w
  /\ pc' = "call"
  /\ UNCHANGED <<articles, seen, filtered, result, raw, tickers>>
  /\ UNCHANGED serviceVars

NextSession ==
  \/ SessionDedupeArticles
  \/ SessionFilterTemporalDuplicates
  \/ SessionGroupArticlesByTopic
  \/ SessionNextCall

SpecSession == InitSession /\ [][NextSession]_vars

\* What the function called returns for its arguments alone.
ResultFor(c, as, w) ==
  CASE c = "dedupeArticles"           -> dedupeArticles(as)
    [] c = "filterTemporalDuplicates" -> filterTemporalDuplicates(as, w)
    [] c = "groupArticlesByTopic"     -> groupArticlesByTopic(as)

\* C24: dedupeArticles, filterTemporalDuplicates and groupArticlesByTopic
\* carry no state from one invocation to the next: whatever was called
\* before, a call returns what its arguments alone determine, and it leaves
\* the array it was given as it was.
C24_NoStateAcrossCalls ==
  [][(pc = "call" /\ pc' = "done") =>
       /\ articles' = articles
       /\ result' = ResultFor(call, articles, timeWindowMs)]_vars

\* dedupeArticles has returned on a batch on which filterTemporalDuplicates
\* was called before: the earlier call dropped an article and left a longer
\* array behind than dedupeArticles returns.
C24_Witness ==
  /\ Returned("dedupeArticles")
  /\ filtered # <<>>
  /\ Len(result) < Len(filtered)
  /\ Len(filtered) < Len(articles)

----------------------------------------------------------------------------
(* analysis.ts: getAnalysis and its cache *)

ArticleIds == {<<"7">>, <<"7", ":", "e", "n">>}
Langs == {<<"r", "u">>, <<"e", "n">>}

\* AnalysisCache.getKey
getKey(articleId, lang) == articleId \o <<":">> \o lang

\* AnalysisCache.get: the cached response, or null (here Undefined).
cacheGet(cache, articleId, lang) ==
  IF MapHas(cache, getKey(articleId, lang))
  THEN Some(MapGet(cache, getKey(articleId, lang)))
  ELSE Undefined

\* AnalysisCache.set
cacheSet(cache, articleId, lang, analysis) ==
  MapSet(cache, getKey(articleId, lang), analysis)

\* The calls that await the API, and those that returned a response.
Awaiting == {i \in 1..Len(getCalls) : getCalls[i].pc = "awaiting"}
Completed == {i \in 1..Len(getCalls) : getCalls[i].pc = "returned"}

InitAnalysis ==
  /\ UtilsIdle
  /\ LocaleIdle
  /\ AnalysisIdle

\* getAnalysis(articleId, lang, ...) up to its first suspension: a cached
\* response is returned, otherwise the request is sent and the call awaits.
\* The record of a call also notes what had happened when it began.
GetAnalysis ==
  /\ Len(getCalls) < MaxCalls
  /\ \E articleId \in ArticleIds, lang \in Langs :
       LET cached == cacheGet(analysisCache, articleId, lang)
           begun  == [articleId |-> articleId, lang |-> lang,
                      after |-> Completed, during |-> Awaiting,
                      clearsAtStart |-> clears]
       IN  IF cached # Undefined
           THEN /\ getCalls' = Append(getCalls,
                     begun @@ [pc |-> "returned", request |-> 0,
                               response |-> cached, clearsAtEnd |-> clears,
                               duringEnd |-> Awaiting])
                /\ UNCHANGED apiRequests
           ELSE /\ apiRequests' = Append(apiRequests,
                                        [articleId |-> articleId, lang |-> lang])
                /\ getCalls' = Append(getCalls,
                     begun @@ [pc |-> "awaiting", request |-> Len(apiRequests) + 1,
                               response |-> Undefined, clearsAtEnd |-> 0,
                               duringEnd |-> {}])
  /\ UNCHANGED <<analysisCache, clears>>
  /\ UNCHANGED <<utilVars, localeVars>>

\* The API answers the request of a call: generateAnalysis returns the
\* response, getAnalysis stores it in the cache and returns it.  Each
\* request is answered with an object of its own.
ApiResponds ==
  /\ \E i \in Awaiting :
       LET c        == getCalls[i]
           analysis == [request |-> c.request]
       IN  /\ analysisCache' = cacheSet(analysisCache, c.articleId, c.lang, analysis)
           /\ getCalls' = [getCalls EXCEPT ![i] =
                 [c EXCEPT !.pc = "returned", !.response = Some(analysis),
                           !.clearsAtEnd = clears,
                           !.duringEnd = Awaiting \ {i}]]
  /\ UNCHANGED <<apiRequests, clears>>
  /\ UNCHANGED <<utilVars, localeVars>>

\* The request of a call fails (network error or a status that is not ok):
\* generateAnalysis throws 'Failed to generate analysis', getAnalysis rejects
\* and the cache is not written.
ApiFails ==
  /\ \E i \in Awaiting :
       getCalls' = [getCalls EXCEPT ![i] = [getCalls[i] EXCEPT !.pc = "failed"]]
  /\ UNCHANGED <<analysisCache, apiRequests, clears>>
  /\ UNCHANGED <<utilVars, localeVars>>

\* analysisCache.clear()
ClearCache ==
  /\ clears < MaxClears
  /\ analysisCache' = <<>>
  /\ clears' = clears + 1
  /\ UNCHANGED <<getCalls, apiRequests>>
  /\ UNCHANGED <<utilVars, localeVars>>

NextAnalysis == GetAnalysis \/ ApiResponds \/ ApiFails \/ ClearCache

SpecAnalysis == InitAnalysis /\ [][NextAnalysis]_vars

SameArticleAndLang(c, d) == c.articleId = d.articleId /\ c.lang = d.lang

\* Call j began after call i had returned its response, for the same article
\* and language, and the cache was not cleared in between.
LaterUncleared(i, j) ==
  /\ i \in getCalls[j].after
  /\ SameArticleAndLang(getCalls[i], getCalls[j])
  /\ getCalls[j].clearsAtStart = getCalls[i].clearsAtEnd

\* Call j began while call i, for the same article and language, was awaiting
\* the API.
Overlapping(i, j) ==
  /\ i \in getCalls[j].during
  /\ SameArticleAndLang(getCalls[i], getCalls[j])

\* C25: once a getAnalysis call has returned a response, every later call
\* for the same article and language returns that same response and sends
\* no request, until analysisCache.clear(); and a response is only ever
\* returned for the language it was requested for.
C25_CachedUntilCleared ==
  /\ \A i, j \in 1..Len(getCalls) :
       LaterUncleared(i, j) =>
         /\ getCalls[j].request = 0
         /\ getCalls[j].response = getCalls[i].response
  /\ \A j \in Completed :
       SameArticleAndLang(apiRequests[getCalls[j].response.v.request], getCalls[j])

\* The same holds for the calls that returned while no other call for
\* their article and language was awaiting the API.
C25_CachedUntilClearedWithoutOverlap ==
  /\ \A i, j \in 1..Len(getCalls) :
       (/\ LaterUncleared(i, j)
        /\ \A k \in getCalls[i].duringEnd :
              ~SameArticleAndLang(getCalls[k], getCalls[i])) =>
         /\ getCalls[j].request = 0
         /\ getCalls[j].response = getCalls[i].response
  /\ \A j \in Completed :
       SameArticleAndLang(apiRequests[getCalls[j].response.v.request], getCalls[j])

\* C29: a getAnalysis call that begins while another call for the same
\* article and language awaits the API sends no request of its own, and the
\* two calls return the same response.
C29_OverlappingCallsShareRequest ==
  \A i, j \in 1..Len(getCalls) :
    Overlapping(i, j) =>
      /\ getCalls[j].request = 0
      /\ (i \in Completed /\ j \in Completed) =>
            getCalls[i].response = getCalls[j].response

----------------------------------------------------------------------------
(* LocaleProvider.tsx: the locale, its storage entry and its URL parameter *)

En == <<"e", "n">>
Ru == <<"r", "u">>

\* What the 'lang' parameter of the URL and the 'locale' entry of the storage
\* can hold when the page loads: nothing (null), the empty string, a locale
\* of the application, or anything else a link or an earlier version wrote.
UrlLangValues ==
  {Undefined, Some(<<>>), Some(En), Some(Ru), Some(<<"f", "r">>)}
StoredValues ==
  {Undefined, Some(<<>>), Some(En), Some(Ru), Some(<<"d", "e">>)}
BrowserLanguages ==
  {<<"r", "u">>, <<"r", "u", "-", "R", "U">>, <<"e", "n", "-", "U", "S">>,
   <<"f", "r">>}

\* String.prototype.startsWith
startsWith(str, prefix) ==
  Len(str) >= Len(prefix) /\ SubSeq(str, 1, Len(prefix)) = prefix

\* urlLang || storedLang || browserLang of initializeLocale
finalLocale(url, stored, browser) ==
  IF TruthyStr(url) THEN url.v
  ELSE IF TruthyStr(stored) THEN stored.v
  ELSE IF startsWith(browser, Ru) THEN Ru ELSE En

\* locale === 'en' ? 'ru' : 'en' of toggleLocale
toggled(l) == IF l = En THEN Ru ELSE En

InitLocale ==
  /\ call = "none" /\ articles = <<>> /\ timeWindowMs = 0 /\ seen = <<>>
  /\ filtered = <<>> /\ result = <<>> /\ raw = <<>> /\ tickers = <<>>
  /\ AnalysisIdle
  /\ pc = "mounting"
  /\ locale = En
  /\ queuedLocale = Undefined
  /\ localStorage \in StoredValues
  /\ urlLang \in UrlLangValues
  /\ browserLang \in BrowserLanguages
  /\ localeLog = <<>>

\* The body of setLocale(newLocale), called as `op`.  The new state is
\* queued for the next render; the storage and the URL are written at once.
\* The log notes the locale the caller saw and whether a state was queued.
setLocaleBody(op, newLocale) ==
  /\ queuedLocale' = Some(newLocale)
  /\ localStorage' = Some(newLocale)
  /\ urlLang' = Some(newLocale)
  /\ localeLog' = Append(localeLog,
                         [op |-> op, before |-> locale, value |-> newLocale,
                          settled |-> queuedLocale = Undefined])
  /\ UNCHANGED <<locale, browserLang>>

\* The effect of the first render: initializeLocale().
InitializeLocale ==
  /\ pc = "mounting"
  /\ setLocaleBody("initializeLocale", finalLocale(urlLang, localStorage, browserLang))
  /\ pc' = "ready"
  /\ UNCHANGED <<call, articles, timeWindowMs, seen, filtered, result, raw, tickers>>
  /\ UNCHANGED analysisVars

\* A component calls setLocale with one of the two locales of its type.
SetLocale ==
  /\ pc = "ready"
  /\ Len(localeLog) < MaxLocaleCalls
  /\ \E newLocale \in {En, Ru} : setLocaleBody("setLocale", newLocale)
  /\ UNCHANGED <<utilVars, analysisVars>>

\* A component calls toggleLocale, which reads the locale of the last render.
ToggleLocale ==
  /\ pc = "ready"
  /\ Len(localeLog) < MaxLocaleCalls
  /\ setLocaleBody("toggleLocale", toggled(locale))
  /\ UNCHANGED <<utilVars, analysisVars>>

\* React renders the provider again with the queued state.
Render ==
  /\ queuedLocale # Undefined
  /\ locale' = queuedLocale.v
  /\ queuedLocale' = Undefined
  /\ UNCHANGED <<localStorage, urlLang, browserLang, localeLog>>
  /\ UNCHANGED <<utilVars, analysisVars>>

NextLocale == InitializeLocale \/ SetLocale \/ ToggleLocale \/ Render

SpecLocale == InitLocale /\ [][NextLocale]_vars

\* The calls made have taken effect: no state waits for a render.
Settled == localeLog # <<>> /\ queuedLocale = Undefined

\* The state, the storage entry and the URL parameter all hold l.
AllHold(l) == locale = l /\ localStorage = Some(l) /\ urlLang = Some(l)

\* Calls k and k + 1 are toggles, each made after the call before it took effect.
SuccessiveToggles(k) ==
  /\ localeLog[k].op = "toggleLocale" /\ localeLog[k].settled
  /\ localeLog[k + 1].op = "toggleLocale" /\ localeLog[k + 1].settled

\* C26: after any sequence of setLocale and toggleLocale calls the locale
\* state, the 'locale' entry of localStorage and the 'lang' parameter of the
\* URL all hold the locale set last; and two successive toggles, each made
\* after the one before took effect, bring the locale back to what it was.
C26_InSyncAndToggleTwiceRestores ==
  /\ Settled => AllHold(localeLog[Len(localeLog)].value)
  /\ \A k \in 1..(Len(localeLog) - 1) :
       SuccessiveToggles(k) => localeLog[k + 1].value = localeLog[k].before

\* The same, for toggles that begin at one of the two locales.
C26_InSyncAndToggleTwiceRestoresEnRu ==
  /\ Settled => AllHold(localeLog[Len(localeLog)].value)
  /\ \A k \in 1..(Len(localeLog) - 1) :
       (SuccessiveToggles(k) /\ localeLog[k].before \in {En, Ru}) =>
         localeLog[k + 1].value = localeLog[k].before

\* C30: the locale of the provider is 'en' or 'ru' in every state, whatever
\* the URL parameter, the storage entry and the browser language were when
\* the page loaded and whatever calls followed.
C30_LocaleIsEnOrRu == locale \in {En, Ru}

\* The same, for pages loaded with a URL parameter and a storage entry that
\* are absent, empty or one of the two locales.
C30_LocaleIsEnOrRuFromValidStart ==
  (localeLog # <<>> /\ localeLog[1].value \in {En, Ru}) => locale \in {En, Ru}

====
